---- MODULE Spec2Model ----
(***************************************************************************)
(* The RDM parameter descriptor store of include/ola/rdm/PidStore.h:       *)
(* PidDescriptor (one PID), PidStore (the PIDs of one namespace, indexed   *)
(* by value and by name) and RootPidStore (the ESTA store layered over the *)
(* manufacturer stores).                                                   *)
(*                                                                         *)
(* Objects live in two heaps: `descriptors` (PidDescriptor objects) and    *)
(* `pidStores` (PidStore objects).  A pointer is an index into its heap    *)
(* and NULL is 0.  The registry is built once, in the initial state, from  *)
(* what the loader hands over (`loaded`); the actions are the const query  *)
(* methods, called by the readers.                                         *)
(*                                                                         *)
(* The header declares PidStore::PidStore, LookupPID, AllPids,             *)
(* RootPidStore::ManufacturerStore, GetDescriptor and                      *)
(* PidDescriptor::RequestValid without bodies; those operators follow the  *)
(* design document (sections 4.1 to 4.3 and 8).                            *)
(***************************************************************************)
EXTENDS Integers, Sequences, FiniteSets, TLC

VARIABLES
    descriptors,   \* heap of PidDescriptor objects, pointer = index
    pidStores,     \* heap of PidStore objects, pointer = index
    root,          \* the RootPidStore object
    loaded,        \* what the loader supplied to the constructors (history)
    constructed,   \* the registry as it was right after construction (history)
    call,          \* per reader: the last call made
    result         \* per reader: what that call returned

vars == <<descriptors, pidStores, root, loaded, constructed, call, result>>

----------------------------------------------------------------------------
(* Bounds of the model. *)

\* longest vector of descriptors handed to PidStore::PidStore
MaxPids == 3
\* most (manufacturer id, store) entries the loader supplies
MaxSupplied == 2
\* concurrent readers of one registry
NumReaders == 2
\* largest version marker tried
MaxVersion == 1
\* concrete sub-device numbers 0..MaxSubDeviceProbe are tried
MaxSubDeviceProbe == 513

----------------------------------------------------------------------------
(* Constants of the program. *)

NULL == 0
MAX_SUBDEVICE_NUMBER == 512
ALL_RDM_SUBDEVICES == 65535

ROOT_DEVICE == "ROOT_DEVICE"
ANY_SUB_DEVICE == "ANY_SUB_DEVICE"
NON_BROADCAST_SUB_DEVICE == "NON_BROADCAST_SUB_DEVICE"
SPECIFIC_SUB_DEVICE == "SPECIFIC_SUB_DEVICE"

sub_device_validator ==
    {ROOT_DEVICE, ANY_SUB_DEVICE, NON_BROADCAST_SUB_DEVICE, SPECIFIC_SUB_DEVICE}

----------------------------------------------------------------------------
(* Input samples. *)

\* PID values and names the loader uses (0x0001, 0x8010)
PidValues == {1, 32784}
PidNames == {"DEVICE_INFO", "CUSTOM_COLOR"}
\* keys the readers ask for: the above, and one of each that no store holds
ProbeValues == PidValues \cup {2}
ProbeNames == PidNames \cup {"device_info"}
\* manufacturer ids the loader uses (0x7FF0, 0x7FF1) and one it never uses
ManufacturerIds == {32752, 32753}
ProbeManufacturerIds == ManufacturerIds \cup {32754}
Versions == 0..MaxVersion
SubDevices == (0..MaxSubDeviceProbe) \cup {ALL_RDM_SUBDEVICES - 1, ALL_RDM_SUBDEVICES}
ReaderSubDevices == {0, 1, ALL_RDM_SUBDEVICES}

Range(f) == {f[x] : x \in DOMAIN f}
BoundedSeq(S, n) == UNION {[1..k -> S] : k \in 0..n}

----------------------------------------------------------------------------
(* PidDescriptor *)

PidDescriptorSwapped(name, value, get_request, get_response, set_request, set_response, get_sub_device_range, set_sub_device_range) ==
    [m_name |-> name, m_pid_value |-> value,
     m_get_request |-> get_request, m_get_response |-> get_response,
     m_set_request |-> set_request, m_set_response |-> set_response,
     m_get_subdevice_range |-> set_sub_device_range,
     m_set_subdevice_range |-> get_sub_device_range]

PidDescriptorNoValue(name, value, get_request, get_response, set_request, set_response, get_sub_device_range, set_sub_device_range) ==
    [m_name |-> name, m_pid_value |-> 0,
     m_get_request |-> get_request, m_get_response |-> get_response,
     m_set_request |-> set_request, m_set_response |-> set_response,
     m_get_subdevice_range |-> get_sub_device_range,
     m_set_subdevice_range |-> set_sub_device_range]

PidDescriptorNoName(name, value, get_request, get_response, set_request, set_response, get_sub_device_range, set_sub_device_range) ==
    [m_name |-> "", m_pid_value |-> value,
     m_get_request |-> get_request, m_get_response |-> get_response,
     m_set_request |-> set_request, m_set_response |-> set_response,
     m_get_subdevice_range |-> get_sub_device_range,
     m_set_subdevice_range |-> set_sub_device_range]

\* the constructor: every member is initialised from its argument
PidDescriptor(name, value, get_request, get_response, set_request, set_response, get_sub_device_range, set_sub_device_range) ==
    [m_name |-> name, m_pid_value |-> value,
     m_get_request |-> get_request, m_get_response |-> get_response,
     m_set_request |-> set_request, m_set_response |-> set_response,
     m_get_subdevice_range |-> get_sub_device_range,
     m_set_subdevice_range |-> set_sub_device_range]

Name(d) == d.m_name
Value(d) == d.m_pid_value

\* one switch over the closed set of four validators
RequestValid(sub_device, validator) ==
    CASE validator = ROOT_DEVICE -> sub_device = 0
      [] validator = ANY_SUB_DEVICE ->
            sub_device <= MAX_SUBDEVICE_NUMBER \/ sub_device = ALL_RDM_SUBDEVICES
      [] validator = NON_BROADCAST_SUB_DEVICE -> sub_device <= MAX_SUBDEVICE_NUMBER
      [] validator = SPECIFIC_SUB_DEVICE ->
            sub_device > 0 /\ sub_device <= MAX_SUBDEVICE_NUMBER
      [] OTHER -> FALSE

IsGetValid(d, sub_device) == RequestValid(sub_device, d.m_get_subdevice_range)
IsSetValid(d, sub_device) == RequestValid(sub_device, d.m_set_subdevice_range)

----------------------------------------------------------------------------
(* PidStore *)

\* the two std::map members, both empty
EmptyPidStore == [m_pid_by_value |-> <<>>, m_pid_by_name |-> <<>>]

\* One descriptor enters both indexes; a descriptor already there that
\* carries the same value or the same name leaves both indexes.
PidStoreInsert(heap, store, p) ==
    LET held == Range(store.m_pid_by_value) \cup Range(store.m_pid_by_name)
        evicted == {q \in held : \/ Value(heap[q]) = Value(heap[p])
                                 \/ Name(heap[q]) = Name(heap[p])}
        keepV == {v \in DOMAIN store.m_pid_by_value :
                      store.m_pid_by_value[v] \notin evicted}
        keepN == {n \in DOMAIN store.m_pid_by_name :
                      store.m_pid_by_name[n] \notin evicted}
    IN  [m_pid_by_value |->
            [v \in keepV \cup {Value(heap[p])} |->
                IF v = Value(heap[p]) THEN p ELSE store.m_pid_by_value[v]],
         m_pid_by_name |->
            [n \in keepN \cup {Name(heap[p])} |->
                IF n = Name(heap[p]) THEN p ELSE store.m_pid_by_name[n]]]

RECURSIVE PidStoreUpTo(_, _, _)
PidStoreUpTo(heap, pids, k) ==
    IF k = 0 THEN EmptyPidStore
    ELSE PidStoreInsert(heap, PidStoreUpTo(heap, pids, k - 1), pids[k])

\* the constructor: the descriptors of the vector, inserted in order
PidStore(heap, pids) == PidStoreUpTo(heap, pids, Len(pids))

PidCountBothIndexes(store) ==
    Cardinality(DOMAIN store.m_pid_by_value) + Cardinality(DOMAIN store.m_pid_by_name)

PidCount(store) == Cardinality(DOMAIN store.m_pid_by_value)

LookupPIDByValue(store, pid_value) ==
    IF pid_value \in DOMAIN store.m_pid_by_value
    THEN store.m_pid_by_value[pid_value] ELSE NULL

LookupPIDByName(store, pid_name) ==
    IF pid_name \in DOMAIN store.m_pid_by_name
    THEN store.m_pid_by_name[pid_name] ELSE NULL

\* the descriptors of the value index, in the order of its keys
RECURSIVE PidsInKeyOrder(_, _)
PidsInKeyOrder(by_value, keys) ==
    IF keys = {} THEN <<>>
    ELSE LET least == CHOOSE v \in keys : \A w \in keys : v <= w
         IN  <<by_value[least]>> \o PidsInKeyOrder(by_value, keys \ {least})

AllPids(store) == PidsInKeyOrder(store.m_pid_by_value, DOMAIN store.m_pid_by_value)

\* LookupPID is a const member function: the store is left as it was.
LookupPIDInserting(store, pid_value) ==
    [store EXCEPT !.m_pid_by_value =
        [v \in DOMAIN store.m_pid_by_value \cup {pid_value} |->
            IF v \in DOMAIN store.m_pid_by_value
            THEN store.m_pid_by_value[v] ELSE NULL]]

AfterLookupPID(store, pid_value) == store

----------------------------------------------------------------------------
(* RootPidStore *)

RootPidStoreNoManufacturers(esta_store, manufacturer_stores, version) ==
    [m_esta_store |-> esta_store, m_manufacturer_store |-> <<>>,
     m_version |-> version]

RootPidStoreNoEsta(esta_store, manufacturer_stores, version) ==
    [m_esta_store |-> NULL, m_manufacturer_store |-> manufacturer_stores,
     m_version |-> version]

\* the constructor: takes the ESTA store and a copy of the manufacturer map
RootPidStore(esta_store, manufacturer_stores, version) ==
    [m_esta_store |-> esta_store, m_manufacturer_store |-> manufacturer_stores,
     m_version |-> version]

Version(rt) == rt.m_version
EstaStore(rt) == rt.m_esta_store

ManufacturerStore(rt, esta_id) ==
    IF esta_id \in DOMAIN rt.m_manufacturer_store
    THEN rt.m_manufacturer_store[esta_id] ELSE NULL

\* unscoped: the ESTA store only
GetDescriptorByValue(stores, rt, pid_value) ==
    IF EstaStore(rt) = NULL THEN NULL
    ELSE LookupPIDByValue(stores[EstaStore(rt)], pid_value)

GetDescriptorByName(stores, rt, pid_name) ==
    IF EstaStore(rt) = NULL THEN NULL
    ELSE LookupPIDByName(stores[EstaStore(rt)], pid_name)

\* scoped: the ESTA store, then the store of the one manufacturer
GetDescriptorByValueScoped(stores, rt, pid_value, manufacturer_id) ==
    LET descriptor == GetDescriptorByValue(stores, rt, pid_value)
        store == ManufacturerStore(rt, manufacturer_id)
    IN  IF descriptor # NULL THEN descriptor
        ELSE IF store # NULL THEN LookupPIDByValue(stores[store], pid_value)
        ELSE NULL

GetDescriptorByNameScoped(stores, rt, pid_name, manufacturer_id) ==
    LET descriptor == GetDescriptorByName(stores, rt, pid_name)
        store == ManufacturerStore(rt, manufacturer_id)
    IN  IF descriptor # NULL THEN descriptor
        ELSE IF store # NULL THEN LookupPIDByName(stores[store], pid_name)
        ELSE NULL

----------------------------------------------------------------------------
(* The loader: what it supplies and how the registry is put together. *)

\* the std::map the loader hands to RootPidStore: the last entry for an id wins
RECURSIVE ManufacturerMapUpTo(_, _)
ManufacturerMapUpTo(entries, k) ==
    IF k = 0 THEN <<>>
    ELSE LET before == ManufacturerMapUpTo(entries, k - 1)
         IN  [id \in DOMAIN before \cup {entries[k].id} |->
                 IF id = entries[k].id THEN entries[k].store ELSE before[id]]

ManufacturerMap(entries) == ManufacturerMapUpTo(entries, Len(entries))

RECURSIVE Offset(_, _)
Offset(batches, i) ==
    IF i <= 1 THEN 0 ELSE Offset(batches, i - 1) + Len(batches[i - 1])

ShapeAt(batches, p) ==
    LET i == CHOOSE i \in 1..Len(batches) :
                 Offset(batches, i) < p /\ p <= Offset(batches, i) + Len(batches[i])
    IN  batches[i][p - Offset(batches, i)]

\* A parameter definition as the loader states it.  In the store and registry
\* specifications the validators go with the name, as in the design
\* document's scenario.
Shape(name, value, get, set) == [name |-> name, value |-> value, get |-> get, set |-> set]

NamedShapes ==
    {Shape(n, v, ANY_SUB_DEVICE,
           IF n = "CUSTOM_COLOR" THEN SPECIFIC_SUB_DEVICE ELSE ANY_SUB_DEVICE) :
        n \in PidNames, v \in PidValues}

\* any vector of definitions, collisions included
Batches == BoundedSeq(NamedShapes, MaxPids)

\* vectors that meet the constructor's @pre: names and values unique
UniqueBatches ==
    {b \in Batches : \A i, j \in 1..Len(b) :
        i < j => b[i].value < b[j].value /\ b[i].name # b[j].name}

\* esta: <<>> or <<batch>>; manufacturers: a sequence of [id, batch]
Construct(esta, manufacturers, version, readers) ==
    LET batches == esta \o [i \in 1..Len(manufacturers) |-> manufacturers[i].batch]
        total == Offset(batches, Len(batches) + 1)
        shapes == [p \in 1..total |-> ShapeAt(batches, p)]
        heap == [p \in 1..total |->
                    PidDescriptor(shapes[p].name, shapes[p].value, NULL, NULL,
                                  NULL, NULL, shapes[p].get, shapes[p].set)]
        vectors == [i \in 1..Len(batches) |->
                       [k \in 1..Len(batches[i]) |-> Offset(batches, i) + k]]
        stores == [i \in 1..Len(batches) |-> PidStore(heap, vectors[i])]
        esta_store == IF esta = <<>> THEN NULL ELSE 1
        entries == [i \in 1..Len(manufacturers) |->
                       [id |-> manufacturers[i].id, store |-> Len(esta) + i]]
        rt == RootPidStore(esta_store, ManufacturerMap(entries), version)
    IN  /\ descriptors = heap
        /\ pidStores = stores
        /\ root = rt
        /\ loaded = [shapes |-> shapes, pids |-> vectors, esta |-> esta_store,
                     manufacturers |-> entries, version |-> version]
        /\ constructed = [descriptors |-> heap, pidStores |-> stores, root |-> rt]
        /\ call = [r \in 1..readers |-> [op |-> "none", args |-> <<>>]]
        /\ result = [r \in 1..readers |-> NULL]

----------------------------------------------------------------------------
(* The query methods, as the readers call them.  A reader stands for one   *)
(* call: the call is atomic and records what was asked and what was        *)
(* returned; a thread that makes several calls is several readers.  All    *)
(* methods are const member functions, so the registry is left unchanged.  *)

Readers == DOMAIN call
Stores == DOMAIN pidStores
Descriptors == DOMAIN descriptors

Returns(r, op, args, value) ==
    /\ call[r].op = "none"
    /\ call' = [call EXCEPT ![r] = [op |-> op, args |-> args]]
    /\ result' = [result EXCEPT ![r] = value]

VersionCall(r) ==
    /\ Returns(r, "Version", <<>>, Version(root))
    /\ UNCHANGED <<descriptors, pidStores, root, loaded, constructed>>

EstaStoreCall(r) ==
    /\ Returns(r, "EstaStore", <<>>, EstaStore(root))
    /\ UNCHANGED <<descriptors, pidStores, root, loaded, constructed>>

ManufacturerStoreCall(r, esta_id) ==
    /\ Returns(r, "ManufacturerStore", <<esta_id>>, ManufacturerStore(root, esta_id))
    /\ UNCHANGED <<descriptors, pidStores, root, loaded, constructed>>

GetDescriptorByNameCall(r, pid_name) ==
    /\ Returns(r, "GetDescriptorByName", <<pid_name>>,
               GetDescriptorByName(pidStores, root, pid_name))
    /\ UNCHANGED <<descriptors, pidStores, root, loaded, constructed>>

GetDescriptorByNameScopedCall(r, pid_name, manufacturer_id) ==
    /\ Returns(r, "GetDescriptorByNameScoped", <<pid_name, manufacturer_id>>,
               GetDescriptorByNameScoped(pidStores, root, pid_name, manufacturer_id))
    /\ UNCHANGED <<descriptors, pidStores, root, loaded, constructed>>

GetDescriptorByValueCall(r, pid_value) ==
    /\ Returns(r, "GetDescriptorByValue", <<pid_value>>,
               GetDescriptorByValue(pidStores, root, pid_value))
    /\ UNCHANGED <<descriptors, pidStores, root, loaded, constructed>>

GetDescriptorByValueScopedCall(r, pid_value, manufacturer_id) ==
    /\ Returns(r, "GetDescriptorByValueScoped", <<pid_value, manufacturer_id>>,
               GetDescriptorByValueScoped(pidStores, root, pid_value, manufacturer_id))
    /\ UNCHANGED <<descriptors, pidStores, root, loaded, constructed>>

PidCountCall(r, s) ==
    /\ Returns(r, "PidCount", <<s>>, PidCount(pidStores[s]))
    /\ UNCHANGED <<descriptors, pidStores, root, loaded, constructed>>

AllPidsCall(r, s) ==
    /\ Returns(r, "AllPids", <<s>>, AllPids(pidStores[s]))
    /\ UNCHANGED <<descriptors, pidStores, root, loaded, constructed>>

LookupPIDByValueCall(r, s, pid_value) ==
    /\ Returns(r, "LookupPIDByValue", <<s, pid_value>>,
               LookupPIDByValue(pidStores[s], pid_value))
    /\ pidStores' = [pidStores EXCEPT ![s] = AfterLookupPID(pidStores[s], pid_value)]
    /\ UNCHANGED <<descriptors, root, loaded, constructed>>

LookupPIDByNameCall(r, s, pid_name) ==
    /\ Returns(r, "LookupPIDByName", <<s, pid_name>>,
               LookupPIDByName(pidStores[s], pid_name))
    /\ UNCHANGED <<descriptors, pidStores, root, loaded, constructed>>

IsGetValidCall(r, d, sub_device) ==
    /\ Returns(r, "IsGetValid", <<d, sub_device>>, IsGetValid(descriptors[d], sub_device))
    /\ UNCHANGED <<descriptors, pidStores, root, loaded, constructed>>

IsSetValidCall(r, d, sub_device) ==
    /\ Returns(r, "IsSetValid", <<d, sub_device>>, IsSetValid(descriptors[d], sub_device))
    /\ UNCHANGED <<descriptors, pidStores, root, loaded, constructed>>

----------------------------------------------------------------------------
(* Spec: one call on a RootPidStore built from an optional ESTA     *)
(* store and up to MaxSupplied manufacturer entries (ids may repeat).      *)

Init ==
    \E esta \in {<<>>} \cup {<<b>> : b \in UniqueBatches} :
    \E manufacturers \in BoundedSeq([id : ManufacturerIds, batch : UniqueBatches], MaxSupplied) :
        Construct(esta, manufacturers, 0, 1)

Next ==
    \/ \E r \in Readers : EstaStoreCall(r)
    \/ \E r \in Readers, id \in ProbeManufacturerIds : ManufacturerStoreCall(r, id)
    \/ \E r \in Readers, n \in ProbeNames : GetDescriptorByNameCall(r, n)
    \/ \E r \in Readers, v \in ProbeValues : GetDescriptorByValueCall(r, v)
    \/ \E r \in Readers, n \in ProbeNames, id \in ProbeManufacturerIds :
           GetDescriptorByNameScopedCall(r, n, id)
    \/ \E r \in Readers, v \in ProbeValues, id \in ProbeManufacturerIds :
           GetDescriptorByValueScopedCall(r, v, id)

Spec == Init /\ [][Next]_vars

(* SpecStore: one call on a PidStore built from any vector of up to        *)
(* MaxPids descriptors, value and name collisions included.                *)

InitStore == \E b \in Batches : Construct(<<b>>, <<>>, 0, 1)

NextStore ==
    \/ \E r \in Readers, s \in Stores : PidCountCall(r, s)
    \/ \E r \in Readers, s \in Stores : AllPidsCall(r, s)
    \/ \E r \in Readers, s \in Stores, v \in ProbeValues : LookupPIDByValueCall(r, s, v)
    \/ \E r \in Readers, s \in Stores, n \in ProbeNames : LookupPIDByNameCall(r, s, n)

SpecStore == InitStore /\ [][NextStore]_vars

(* SpecValidator: one descriptor with any pair of validators, asked about  *)
(* every sub-device of SubDevices.                                         *)

InitValidator ==
    \E get \in sub_device_validator, set \in sub_device_validator :
        Construct(<< <<Shape("DEVICE_INFO", 1, get, set)>> >>, <<>>, 0, 1)

NextValidator ==
    \/ \E r \in Readers, d \in Descriptors, sub_device \in SubDevices :
           IsGetValidCall(r, d, sub_device)
    \/ \E r \in Readers, d \in Descriptors, sub_device \in SubDevices :
           IsSetValidCall(r, d, sub_device)

SpecValidator == InitValidator /\ [][NextValidator]_vars

(* SpecReaders: NumReaders readers call any methods, in any order, on the  *)
(* registry of the design document's scenario (ESTA store with             *)
(* DEVICE_INFO, manufacturer 0x7FF0 with CUSTOM_COLOR) or on the same with *)
(* the ESTA store or the manufacturer left out.                            *)

ScenarioEsta == <<Shape("DEVICE_INFO", 1, ANY_SUB_DEVICE, ANY_SUB_DEVICE)>>
ScenarioManufacturer ==
    [id |-> 32752,
     batch |-> <<Shape("CUSTOM_COLOR", 32784, ANY_SUB_DEVICE, SPECIFIC_SUB_DEVICE)>>]

InitReaders ==
    \E esta \in {<<>>, <<ScenarioEsta>>} :
    \E manufacturers \in {<<>>, <<ScenarioManufacturer>>} :
    \E version \in Versions :
        Construct(esta, manufacturers, version, NumReaders)

NextReaders ==
    \/ \E r \in Readers : VersionCall(r)
    \/ \E r \in Readers : EstaStoreCall(r)
    \/ \E r \in Readers, id \in ManufacturerIds : ManufacturerStoreCall(r, id)
    \/ \E r \in Readers, n \in PidNames : GetDescriptorByNameCall(r, n)
    \/ \E r \in Readers, v \in PidValues : GetDescriptorByValueCall(r, v)
    \/ \E r \in Readers, n \in PidNames, id \in ManufacturerIds :
           GetDescriptorByNameScopedCall(r, n, id)
    \/ \E r \in Readers, v \in PidValues, id \in ManufacturerIds :
           GetDescriptorByValueScopedCall(r, v, id)
    \/ \E r \in Readers, s \in Stores : PidCountCall(r, s)
    \/ \E r \in Readers, s \in Stores : AllPidsCall(r, s)
    \/ \E r \in Readers, s \in Stores, v \in ProbeValues : LookupPIDByValueCall(r, s, v)
    \/ \E r \in Readers, s \in Stores, n \in PidNames : LookupPIDByNameCall(r, s, n)
    \/ \E r \in Readers, d \in Descriptors, sub_device \in ReaderSubDevices :
           IsGetValidCall(r, d, sub_device)
    \/ \E r \in Readers, d \in Descriptors, sub_device \in ReaderSubDevices :
           IsSetValidCall(r, d, sub_device)

SpecReaders == InitReaders /\ [][NextReaders]_vars

----------------------------------------------------------------------------
(* What the loader supplied, read from `loaded` alone: the reference the   *)
(* properties below compare the query results with.                        *)

\* the definition behind descriptor pointer p, and the vector given to store s
In(p) == loaded.shapes[p]
Vector(s) == IF s = NULL THEN <<>> ELSE loaded.pids[s]
Called(r, op) == call[r].op = op

\* the i-th descriptor of store s's vector is not displaced by a later one
Survives(s, i) ==
    \A j \in (i + 1)..Len(Vector(s)) :
        /\ In(Vector(s)[j]).value # In(Vector(s)[i]).value
        /\ In(Vector(s)[j]).name # In(Vector(s)[i]).name

Survivors(s) == {Vector(s)[i] : i \in {k \in 1..Len(Vector(s)) : Survives(s, k)}}

\* shares neither its value nor its name with another descriptor of the vector
Uncontested(s, i) ==
    \A j \in 1..Len(Vector(s)) :
        j # i => /\ In(Vector(s)[j]).value # In(Vector(s)[i]).value
                 /\ In(Vector(s)[j]).name # In(Vector(s)[i]).name

\* the surviving descriptor of store s with the key, or NULL
EntryByValue(s, v) ==
    LET found == {p \in Survivors(s) : In(p).value = v}
    IN  IF found = {} THEN NULL ELSE CHOOSE p \in found : TRUE

EntryByName(s, n) ==
    LET found == {p \in Survivors(s) : In(p).name = n}
    IN  IF found = {} THEN NULL ELSE CHOOSE p \in found : TRUE

\* the store supplied last for the manufacturer id, or NULL
Registered(id) ==
    LET at == {i \in 1..Len(loaded.manufacturers) : loaded.manufacturers[i].id = id}
    IN  IF at = {} THEN NULL
        ELSE loaded.manufacturers[CHOOSE i \in at : \A k \in at : k <= i].store

\* the table of valid sub-devices, validator by validator
InTable(validator, s) ==
    \/ validator = ROOT_DEVICE /\ s = 0
    \/ validator = ANY_SUB_DEVICE /\ ((0 <= s /\ s <= 512) \/ s = ALL_RDM_SUBDEVICES)
    \/ validator = NON_BROADCAST_SUB_DEVICE /\ 0 <= s /\ s <= 512
    \/ validator = SPECIFIC_SUB_DEVICE /\ 1 <= s /\ s <= 512

----------------------------------------------------------------------------
(* The claims. *)

\* C1: IsGetValid(s) is true exactly when s is in the table row of the GET
\* validator the descriptor was built with, and IsSetValid(s) exactly when s
\* is in the row of its SET validator; neither depends on the other validator.
C1_ValidatorTable ==
    \A r \in Readers :
        /\ Called(r, "IsGetValid") =>
              (result[r] <=> InTable(In(call[r].args[1]).get, call[r].args[2]))
        /\ Called(r, "IsSetValid") =>
              (result[r] <=> InTable(In(call[r].args[1]).set, call[r].args[2]))

\* a descriptor gettable at the root only, settable anywhere: SET on broadcast is valid
C1_Witness ==
    /\ Called(1, "IsSetValid")
    /\ In(call[1].args[1]).get = ROOT_DEVICE
    /\ In(call[1].args[1]).set = ANY_SUB_DEVICE
    /\ call[1].args[2] = ALL_RDM_SUBDEVICES
    /\ result[1] = TRUE

\* C2: the scoped lookup returns the ESTA store's descriptor for the key when
\* the ESTA store holds the key; otherwise the descriptor of the store
\* registered for manufacturer M when there is one and it holds the key;
\* otherwise NULL.  A descriptor it returns belongs to the ESTA store or to
\* M's store, never to another manufacturer's.
C2_ScopedLookup ==
    \A r \in Readers :
        /\ Called(r, "GetDescriptorByValueScoped") =>
              LET k == call[r].args[1]
                  M == call[r].args[2]
              IN  /\ result[r] = IF EntryByValue(loaded.esta, k) # NULL
                                 THEN EntryByValue(loaded.esta, k)
                                 ELSE EntryByValue(Registered(M), k)
                  /\ result[r] # NULL =>
                        result[r] \in Range(Vector(loaded.esta)) \cup Range(Vector(Registered(M)))
        /\ Called(r, "GetDescriptorByNameScoped") =>
              LET k == call[r].args[1]
                  M == call[r].args[2]
              IN  /\ result[r] = IF EntryByName(loaded.esta, k) # NULL
                                 THEN EntryByName(loaded.esta, k)
                                 ELSE EntryByName(Registered(M), k)
                  /\ result[r] # NULL =>
                        result[r] \in Range(Vector(loaded.esta)) \cup Range(Vector(Registered(M)))

\* the key is in the ESTA store and in M's store: the ESTA descriptor is returned
C2_Witness ==
    /\ Called(1, "GetDescriptorByValueScoped")
    /\ EntryByValue(loaded.esta, call[1].args[1]) # NULL
    /\ EntryByValue(Registered(call[1].args[2]), call[1].args[1]) # NULL
    /\ result[1] = EntryByValue(loaded.esta, call[1].args[1])

\* C3: a key held by manufacturer stores only is not found by the unscoped
\* lookup, and is found by the lookup scoped to a manufacturer whose store
\* holds it.
C3_UnscopedIsEstaOnly ==
    \A r \in Readers :
        /\ Called(r, "GetDescriptorByValue") =>
              ((/\ EntryByValue(loaded.esta, call[r].args[1]) = NULL
                /\ \E id \in ManufacturerIds :
                       EntryByValue(Registered(id), call[r].args[1]) # NULL)
               => result[r] = NULL)
        /\ Called(r, "GetDescriptorByName") =>
              ((/\ EntryByName(loaded.esta, call[r].args[1]) = NULL
                /\ \E id \in ManufacturerIds :
                       EntryByName(Registered(id), call[r].args[1]) # NULL)
               => result[r] = NULL)
        /\ Called(r, "GetDescriptorByValueScoped") =>
              ((/\ EntryByValue(loaded.esta, call[r].args[1]) = NULL
                /\ EntryByValue(Registered(call[r].args[2]), call[r].args[1]) # NULL)
               => result[r] = EntryByValue(Registered(call[r].args[2]), call[r].args[1]))
        /\ Called(r, "GetDescriptorByNameScoped") =>
              ((/\ EntryByName(loaded.esta, call[r].args[1]) = NULL
                /\ EntryByName(Registered(call[r].args[2]), call[r].args[1]) # NULL)
               => result[r] = EntryByName(Registered(call[r].args[2]), call[r].args[1]))

\* an ESTA store is there, the name is held by a manufacturer only: NULL
C3_Witness ==
    /\ Called(1, "GetDescriptorByName")
    /\ loaded.esta # NULL
    /\ EntryByName(loaded.esta, call[1].args[1]) = NULL
    /\ \E id \in ManufacturerIds : EntryByName(Registered(id), call[1].args[1]) # NULL
    /\ result[1] = NULL

\* a later descriptor B (at j) has the value of an earlier A (at i), not its name
SameValueOtherName(s, i, j) ==
    /\ i < j
    /\ In(Vector(s)[i]).value = In(Vector(s)[j]).value
    /\ In(Vector(s)[i]).name # In(Vector(s)[j]).name

\* C4 as stated: whenever the vector holds such A and B, LookupPID(value)
\* and LookupPID(B.name) return B and LookupPID(A.name) returns NULL.
C4_AsStated ==
    \A r \in Readers, s \in Stores :
        \A i, j \in 1..Len(Vector(s)) :
            SameValueOtherName(s, i, j) =>
                LET A == Vector(s)[i]
                    B == Vector(s)[j]
                IN  /\ (Called(r, "LookupPIDByValue") /\ call[r].args[1] = s
                        /\ call[r].args[2] = In(B).value) => result[r] = B
                    /\ (Called(r, "LookupPIDByName") /\ call[r].args[1] = s
                        /\ call[r].args[2] = In(B).name) => result[r] = B
                    /\ (Called(r, "LookupPIDByName") /\ call[r].args[1] = s
                        /\ call[r].args[2] = In(A).name) => result[r] = NULL

\* C4, amended: with such A and B, LookupPID(value) and LookupPID(B.name)
\* return B provided no descriptor supplied after B has B's value or B's
\* name; LookupPID(A.name) never returns A, and returns NULL provided no
\* descriptor supplied after A has A's name.
C4_LastWriteWins ==
    \A r \in Readers, s \in Stores :
        \A i, j \in 1..Len(Vector(s)) :
            SameValueOtherName(s, i, j) =>
                LET A == Vector(s)[i]
                    B == Vector(s)[j]
                IN  /\ (Called(r, "LookupPIDByValue") /\ call[r].args[1] = s
                        /\ call[r].args[2] = In(B).value /\ Survives(s, j))
                       => result[r] = B
                    /\ (Called(r, "LookupPIDByName") /\ call[r].args[1] = s
                        /\ call[r].args[2] = In(B).name /\ Survives(s, j))
                       => result[r] = B
                    /\ (Called(r, "LookupPIDByName") /\ call[r].args[1] = s
                        /\ call[r].args[2] = In(A).name)
                       => /\ result[r] # A
                          /\ (\A k \in (i + 1)..Len(Vector(s)) :
                                  In(Vector(s)[k]).name # In(A).name)
                             => result[r] = NULL

\* A then B and nothing else: the lookup of A's name finds nothing
C4_Witness ==
    /\ Len(Vector(1)) = 2
    /\ SameValueOtherName(1, 1, 2)
    /\ Called(1, "LookupPIDByName")
    /\ call[1].args[2] = In(Vector(1)[1]).name
    /\ result[1] = NULL

\* C5: a descriptor that shares neither its value nor its name with another
\* descriptor of the vector is returned by the lookup of its value and by
\* the lookup of its name; a value or name that no descriptor of the vector
\* carries is looked up to NULL.
C5_UncontestedLookup ==
    \A r \in Readers :
        /\ Called(r, "LookupPIDByValue") =>
              LET s == call[r].args[1]
                  v == call[r].args[2]
              IN  /\ \A i \in 1..Len(Vector(s)) :
                         (Uncontested(s, i) /\ In(Vector(s)[i]).value = v)
                         => result[r] = Vector(s)[i]
                  /\ (\A i \in 1..Len(Vector(s)) : In(Vector(s)[i]).value # v)
                     => result[r] = NULL
        /\ Called(r, "LookupPIDByName") =>
              LET s == call[r].args[1]
                  n == call[r].args[2]
              IN  /\ \A i \in 1..Len(Vector(s)) :
                         (Uncontested(s, i) /\ In(Vector(s)[i]).name = n)
                         => result[r] = Vector(s)[i]
                  /\ (\A i \in 1..Len(Vector(s)) : In(Vector(s)[i]).name # n)
                     => result[r] = NULL

\* two uncontested descriptors: the second is found by its value
C5_Witness ==
    /\ Len(Vector(1)) = 2
    /\ Uncontested(1, 1) /\ Uncontested(1, 2)
    /\ Called(1, "LookupPIDByValue")
    /\ call[1].args[2] = In(Vector(1)[2]).value
    /\ result[1] = Vector(1)[2]

\* C6: PidCount is the number of distinct values among the descriptors that
\* survive the collisions, whatever the length of the vector.
C6_PidCount ==
    \A r \in Readers :
        Called(r, "PidCount") =>
            result[r] = Cardinality({In(p).value : p \in Survivors(call[r].args[1])})

\* three descriptors supplied, one value left
C6_Witness ==
    /\ Called(1, "PidCount")
    /\ Len(Vector(call[1].args[1])) = 3
    /\ result[1] = 1

\* C7: ManufacturerStore(id) is NULL for an id the loader never supplied and
\* otherwise the store supplied last for that id.
C7_ManufacturerStore ==
    \A r \in Readers :
        Called(r, "ManufacturerStore") => result[r] = Registered(call[r].args[1])

\* the id was supplied twice: the second store is returned
C7_Witness ==
    /\ Len(loaded.manufacturers) = 2
    /\ loaded.manufacturers[1].id = loaded.manufacturers[2].id
    /\ Called(1, "ManufacturerStore")
    /\ call[1].args[1] = loaded.manufacturers[2].id
    /\ result[1] = loaded.manufacturers[2].store
    /\ result[1] # loaded.manufacturers[1].store

\* C8: without an ESTA store every query is answered: EstaStore and the
\* unscoped lookups return NULL, and a scoped lookup returns the descriptor
\* of M's registered store for the key, or NULL when there is none.
C8_NoEstaStore ==
    loaded.esta = NULL =>
        \A r \in Readers :
            /\ Called(r, "EstaStore") => result[r] = NULL
            /\ Called(r, "GetDescriptorByValue") => result[r] = NULL
            /\ Called(r, "GetDescriptorByName") => result[r] = NULL
            /\ Called(r, "GetDescriptorByValueScoped") =>
                  result[r] = EntryByValue(Registered(call[r].args[2]), call[r].args[1])
            /\ Called(r, "GetDescriptorByNameScoped") =>
                  result[r] = EntryByName(Registered(call[r].args[2]), call[r].args[1])

\* no ESTA store, the manufacturer holds the name: its descriptor is returned
C8_Witness ==
    /\ loaded.esta = NULL
    /\ Called(1, "GetDescriptorByNameScoped")
    /\ result[1] # NULL
    /\ result[1] = EntryByName(Registered(call[1].args[2]), call[1].args[1])

\* what a call returns on the registry as constructed
Baseline(c) ==
    LET ds == constructed.descriptors
        ss == constructed.pidStores
        rt == constructed.root
    IN  CASE c.op = "Version" -> Version(rt)
          [] c.op = "EstaStore" -> EstaStore(rt)
          [] c.op = "ManufacturerStore" -> ManufacturerStore(rt, c.args[1])
          [] c.op = "GetDescriptorByName" -> GetDescriptorByName(ss, rt, c.args[1])
          [] c.op = "GetDescriptorByNameScoped" ->
                GetDescriptorByNameScoped(ss, rt, c.args[1], c.args[2])
          [] c.op = "GetDescriptorByValue" -> GetDescriptorByValue(ss, rt, c.args[1])
          [] c.op = "GetDescriptorByValueScoped" ->
                GetDescriptorByValueScoped(ss, rt, c.args[1], c.args[2])
          [] c.op = "PidCount" -> PidCount(ss[c.args[1]])
          [] c.op = "AllPids" -> AllPids(ss[c.args[1]])
          [] c.op = "LookupPIDByValue" -> LookupPIDByValue(ss[c.args[1]], c.args[2])
          [] c.op = "LookupPIDByName" -> LookupPIDByName(ss[c.args[1]], c.args[2])
          [] c.op = "IsGetValid" -> IsGetValid(ds[c.args[1]], c.args[2])
          [] c.op = "IsSetValid" -> IsSetValid(ds[c.args[1]], c.args[2])
          [] OTHER -> NULL

\* C9: whatever the readers have called and in whatever order, the registry
\* is the one that was constructed, and every reader holds the result its
\* call gives on that registry.
C9_ReadersSeeBaseline ==
    /\ descriptors = constructed.descriptors
    /\ pidStores = constructed.pidStores
    /\ root = constructed.root
    /\ \A r \in Readers : result[r] = Baseline(call[r])

\* one reader has looked up a value no store holds, another has then counted
C9_Witness ==
    /\ Called(1, "LookupPIDByValue")
    /\ call[1].args[2] \notin PidValues
    /\ result[1] = NULL
    /\ Called(2, "PidCount")
    /\ call[2].args[1] = call[1].args[1]
    /\ result[2] = 1

\* C10: the two indexes describe one set of descriptors: a descriptor found
\* by value has that value and is found by its name, a descriptor found by
\* name has that name and is found by its value, and AllPids yields PidCount
\* distinct descriptors, each found by both lookups.
C10_IndexesAgree ==
    \A r \in Readers :
        /\ (Called(r, "LookupPIDByValue") /\ result[r] # NULL) =>
              /\ Value(descriptors[result[r]]) = call[r].args[2]
              /\ LookupPIDByName(pidStores[call[r].args[1]],
                                 Name(descriptors[result[r]])) = result[r]
        /\ (Called(r, "LookupPIDByName") /\ result[r] # NULL) =>
              /\ Name(descriptors[result[r]]) = call[r].args[2]
              /\ LookupPIDByValue(pidStores[call[r].args[1]],
                                  Value(descriptors[result[r]])) = result[r]
        /\ Called(r, "AllPids") =>
              LET store == pidStores[call[r].args[1]]
              IN  /\ Len(result[r]) = PidCount(store)
                  /\ Cardinality(Range(result[r])) = Len(result[r])
                  /\ \A k \in 1..Len(result[r]) :
                        /\ result[r][k] # NULL
                        /\ LookupPIDByValue(store, Value(descriptors[result[r][k]])) = result[r][k]
                        /\ LookupPIDByName(store, Name(descriptors[result[r][k]])) = result[r][k]

\* three descriptors supplied with a collision, two listed
C10_Witness ==
    /\ Called(1, "AllPids")
    /\ Len(Vector(call[1].args[1])) = 3
    /\ Len(result[1]) = 2

====
